---- MODULE Spec2Model ----
(***************************************************************************)
(* The pixel-write arbitration and broadcast core of server.js: the two    *)
(* place handlers (POST /api/place and the socket.io 'place' message),     *)
(* their in-memory cooldown tables, the sqlite table pixels behind         *)
(* db.run, and the messages emitted to the connected sockets.              *)
(*                                                                         *)
(* A handler runs to completion on the event loop, so each handler is one  *)
(* action.  db.run only queues its statement: sqlite executes it later     *)
(* (DbRunOk / DbRunErr) and the completion callback runs later still       *)
(* (RunCallback), so other handlers interleave between the three steps.    *)
(* The database is never put in serialized mode for these statements       *)
(* (db.serialize at line 49 covers CREATE TABLE only), so queued           *)
(* statements execute, and their callbacks run, in any order.              *)
(*                                                                         *)
(* The express-rate-limit middleware of line 34-40 is library code that    *)
(* runs before the handler: RestPlace models the requests it lets through. *)
(*                                                                         *)
(* Spec follows the place handlers alone.  ViewSpec adds the snapshot      *)
(* handlers (GET /api/pixels, 'getPixels'), the messages on their way to   *)
(* each socket, and the handlers of script.js that keep a client's copy of *)
(* the canvas.                                                             *)
(***************************************************************************)
EXTENDS Integers, Sequences, FiniteSets, TLC

\* ---------------------------------------------------------------- config
\* server.js:14-16, read from the environment; small values keep the model finite.
CANVAS_W == 2
CANVAS_H == 1
PLACE_COOLDOWN_MS == 2

\* ---------------------------------------------------------------- bounds
MaxTime == 4        \* Date.now() ranges over 0..MaxTime
MaxReqs == 1        \* place requests in flight between db.run and its callback
MaxOverlap == 2     \* the same, in the population that overlaps its requests
MaxSnaps == 1       \* snapshot reads in flight between db.all and its callback
MaxChan == 2        \* messages sent to one socket that its client has not handled yet
MaxViewTicks == 1   \* milliseconds that pass in ViewSpec

IPs == {"ip1", "ip2"}
Sockets == {"s1", "s2"}
NoAddr == "none"
Absent == -1        \* a key the cooldown object does not have

\* ---------------------------------------------------------------- inputs
\* A JSON value in a coordinate position: an integer, or anything else
\* (a string, a fraction, null, undefined).
IntV(n) == [t |-> "int", v |-> n]
OtherV == [t |-> "other", v |-> 0]
\* A JSON value in the color position: a string, as its characters, or anything else.
StrV(s) == [t |-> "str", v |-> s]
OtherC == [t |-> "other", v |-> <<>>]

Red == <<"#", "f", "f", "0", "0", "0", "0">>
Green == <<"#", "0", "0", "F", "F", "0", "a">>

XVals == {IntV(n) : n \in -1 .. CANVAS_W} \cup {OtherV}
YVals == {IntV(n) : n \in -1 .. CANVAS_H} \cup {OtherV}
ColorVals ==
  { StrV(Red), StrV(Green),
    StrV(<<"r", "e", "d">>),
    StrV(<<"#", "f", "f", "0", "0">>),
    StrV(<<"#", "g", "g", "0", "0", "0", "0">>),
    StrV(<<"#", "f", "f", "0", "0", "0", "0", "0">>),
    OtherC }

\* The payload of a place request.  obj = FALSE is a payload that cannot be
\* destructured (null or undefined), which only the socket path can receive.
Body(x, y, c) == [obj |-> TRUE, x |-> x, y |-> y, color |-> c]
NullData == [obj |-> FALSE, x |-> OtherV, y |-> OtherV, color |-> OtherC]

GoodX == {IntV(n) : n \in 0 .. CANVAS_W - 1}
GoodY == {IntV(n) : n \in 0 .. CANVAS_H - 1}
GoodC == {StrV(Red), StrV(Green)}
BadC == ColorVals \ GoodC

\* The payloads with one bad field, and some with several.
BadBodies ==
  {Body(x, IntV(0), StrV(Red)) : x \in XVals \ GoodX}
    \cup {Body(IntV(0), y, StrV(Red)) : y \in YVals \ GoodY}
    \cup {Body(IntV(0), IntV(0), c) : c \in BadC}
    \cup {Body(OtherV, IntV(CANVAS_H), OtherC), Body(IntV(CANVAS_W), OtherV, OtherC),
          Body(IntV(-1), IntV(0), OtherC)}

\* The populations of clients the model is run with.  "actors": two REST
\* clients with different addresses and one socket client that shares the
\* address of the first, all painting one cell in one color or sending any
\* of the bad payloads.  "canvas": one REST client and two socket clients
\* behind one address, painting one cell in two colors and another in one,
\* or sending a payload that is out of bounds or has a bad color.  "overlap":
\* one REST client and one socket client behind one address, painting one
\* cell in two colors, with up to MaxOverlap requests in flight at once.
\* "replica", the population of ViewSpec: one REST client and one socket
\* client behind one address, painting one cell red and another green, the
\* socket client keeping its copy of the canvas.
Worlds == {"actors", "canvas", "overlap"}
RestIPs(w) == IF w = "actors" THEN {"ip1", "ip2"} ELSE {"ip1"}
SocketsOf(w) == IF w = "canvas" THEN {"s1", "s2"} ELSE {"s1"}
InFlight(w) == IF w = "overlap" THEN MaxOverlap ELSE MaxReqs
HandshakeIPs(w) == {"ip1"}
Bodies(w) ==
  IF w = "overlap" THEN {Body(IntV(0), IntV(0), c) : c \in GoodC}
  ELSE IF w = "replica"
    THEN {Body(IntV(0), IntV(0), StrV(Red)),
          Body(IntV(CANVAS_W - 1), IntV(0), StrV(Green))}
  ELSE IF w = "actors" THEN {Body(IntV(0), IntV(0), StrV(Red))} \cup BadBodies
  ELSE {Body(IntV(0), IntV(0), c) : c \in GoodC}
         \cup {Body(IntV(CANVAS_W - 1), IntV(0), StrV(Red)),
               Body(IntV(CANVAS_W), IntV(0), StrV(Red)),
               Body(IntV(0), IntV(0), StrV(<<"r", "e", "d">>))}
Payloads(w) == IF w = "actors" THEN Bodies(w) \cup {NullData} ELSE Bodies(w)

VARIABLES
  world,           \* the population of clients of this run; never changes
  now,             \* the value Date.now() returns
  placeCooldown,   \* global._placeCooldown
  socketCooldown,  \* global._socketCooldown
  pixels,          \* the rows of table pixels
  reqs,            \* the place requests between db.run and the end of its callback
  conn,            \* socket -> its handshake address, or NoAddr when not connected
  ev,              \* what the last step did, answered and emitted
  snaps,           \* the snapshot reads between db.all and the end of its callback
  chan,            \* socket -> the messages sent to it that its client has not handled
  view             \* socket -> its client: the pixels map of script.js and what it did

vars ==
  <<world, now, placeCooldown, socketCooldown, pixels, reqs, conn, ev, snaps, chan, view>>

\* The snapshot reads and the clients' side, which Spec leaves idle.
ClientVars == <<snaps, chan, view>>

\* ---------------------------------------------------------------- helpers
HexDigits ==
  {"0", "1", "2", "3", "4", "5", "6", "7", "8", "9",
   "a", "b", "c", "d", "e", "f", "A", "B", "C", "D", "E", "F"}

\* function validColor(c)
validColor(c) ==
  /\ c.t = "str"
  /\ Len(c.v) = 7
  /\ c.v[1] = "#"
  /\ \A i \in 2 .. 7 : c.v[i] \in HexDigits

\* Number.isInteger
NumberIsInteger(j) == j.t = "int"

\* (variant: the bounds test with > in place of >=)
ValidateInclusive(d) ==
  IF ~NumberIsInteger(d.x) \/ ~NumberIsInteger(d.y) THEN "invalid coords"
  ELSE IF d.x.v < 0 \/ d.x.v > CANVAS_W \/ d.y.v < 0 \/ d.y.v > CANVAS_H
    THEN "out of bounds"
  ELSE IF ~validColor(d.color) THEN "invalid color"
  ELSE "valid"

\* The three validation returns of a place handler, in the code's order;
\* "valid" when none fires.
Validate(d) ==
  IF ~NumberIsInteger(d.x) \/ ~NumberIsInteger(d.y) THEN "invalid coords"
  ELSE IF d.x.v < 0 \/ d.x.v >= CANVAS_W \/ d.y.v < 0 \/ d.y.v >= CANVAS_H
    THEN "out of bounds"
  ELSE IF ~validColor(d.color) THEN "invalid color"
  ELSE "valid"

\* A cooldown object that was never created.
UndefinedTable == [defined |-> FALSE, entries |-> [i \in IPs |-> Absent]]

\* global._xCooldown[ip] || 0, read after the object has been created
Last(tab, ip) == IF tab.entries[ip] = Absent THEN 0 ELSE tab.entries[ip]

\* (variant: the window one millisecond short)
InCooldownShort(ts, last) == ts - last < PLACE_COOLDOWN_MS - 1

\* ts - last < PLACE_COOLDOWN_MS
InCooldown(ts, last) == ts - last < PLACE_COOLDOWN_MS

\* What a handler decides for payload check chk at time ts.
Outcome(chk, tab, ip, ts) ==
  IF chk # "valid" THEN chk
  ELSE IF InCooldown(ts, Last(tab, ip)) THEN "cooldown"
  ELSE "admit"

\* (variant: the entry written before the cooldown test)
NextTableOnDenied(tab, ip, ts, outcome) ==
  IF outcome \in {"admit", "cooldown"}
    THEN [defined |-> TRUE, entries |-> [tab.entries EXCEPT ![ip] = ts]]
  ELSE tab

\* (variant: one timestamp shared by every address)
NextTableAll(tab, ip, ts, outcome) ==
  IF outcome = "admit"
    THEN [defined |-> TRUE, entries |-> [i \in IPs |-> ts]]
  ELSE IF outcome = "cooldown" THEN [tab EXCEPT !.defined = TRUE]
  ELSE tab

\* (variant: the entry left for the callback of db.run to write)
NextTableUnwritten(tab, ip, ts, outcome) ==
  IF outcome \in {"admit", "cooldown"} THEN [tab EXCEPT !.defined = TRUE] ELSE tab

\* The cooldown object after the handler: created once validation has passed,
\* written only past the cooldown return.
NextTable(tab, ip, ts, outcome) ==
  IF outcome = "admit"
    THEN [defined |-> TRUE, entries |-> [tab.entries EXCEPT ![ip] = ts]]
  ELSE IF outcome = "cooldown" THEN [tab EXCEPT !.defined = TRUE]
  ELSE tab

\* (variant: the cooldown branch answers but does not return)
ProceedsPastCooldown(outcome) == outcome \in {"admit", "cooldown"}

\* Whether the handler reaches db.run: none of its returns fired.
Proceeds(outcome) == outcome = "admit"

\* (variant: ON CONFLICT(x,y) DO UPDATE SET color=excluded.color alone)
UpsertColorOnly(rows, x, y, color, ts) ==
  IF \E r \in rows : r.x = x /\ r.y = y
    THEN {IF r.x = x /\ r.y = y THEN [r EXCEPT !.color = color] ELSE r : r \in rows}
    ELSE rows \cup {[x |-> x, y |-> y, color |-> color, last_modified |-> ts]}

\* (variant: the old row kept beside the new one)
UpsertAppend(rows, x, y, color, ts) ==
  rows \cup {[x |-> x, y |-> y, color |-> color, last_modified |-> ts]}

\* INSERT ... ON CONFLICT(x,y) DO UPDATE SET color, last_modified
Upsert(rows, x, y, color, ts) ==
  {r \in rows : ~(r.x = x /\ r.y = y)}
    \cup {[x |-> x, y |-> y, color |-> color, last_modified |-> ts]}

\* ---------------------------------------------------------------- messages
ConfigMsg == [type |-> "config", width |-> CANVAS_W, height |-> CANVAS_H]
DeniedMsg == [type |-> "placeDenied", reason |-> "cooldown"]
PixelMsg(r) == [type |-> "pixel", x |-> r.x, y |-> r.y, color |-> r.color]

Connected(cn) == {s \in Sockets : cn[s] # NoAddr}

\* (variant: socket.broadcast.emit, which skips the sender)
PixelTargetsOthers(cn, r) == Connected(cn) \ {r.sock}

\* (variant: the event is dropped when the sender's socket is gone)
PixelTargetsIfSenderConnected(cn, r) ==
  IF r.via = "socket" /\ cn[r.sock] = NoAddr THEN {} ELSE Connected(cn)

\* io.emit: every connected socket
PixelTargets(cn, r) == Connected(cn)

\* (variant: io.emit in place of socket.emit)
DeniedTargetsAll(cn, s) == Connected(cn)

\* socket.emit on the handler's own socket
DeniedTargets(cn, s) == {s}

\* The messages one step emits, per socket, in order.
NoEmits == [s \in Sockets |-> <<>>]
Emit(targets, msg) == [s \in Sockets |-> IF s \in targets THEN <<msg>> ELSE <<>>]

\* ---------------------------------------------------------------- responses
NoResp == [status |-> 0, key |-> "", val |-> ""]
ErrorResp(code, what) == [status |-> code, key |-> "error", val |-> what]
OkResp == [status |-> 200, key |-> "ok", val |-> "true"]

\* (variant: one message for both coordinate returns)
RestReplyMerged(outcome) ==
  IF outcome \in {"invalid coords", "out of bounds"}
    THEN ErrorResp(400, "invalid coords")
  ELSE IF outcome = "invalid color" THEN ErrorResp(400, outcome)
  ELSE IF outcome = "cooldown" THEN ErrorResp(429, "cooldown")
  ELSE NoResp

\* What POST /api/place answers before it returns; NoResp when the answer is
\* left to the db.run callback.
RestReply(outcome) ==
  IF outcome \in {"invalid coords", "out of bounds", "invalid color"}
    THEN ErrorResp(400, outcome)
  ELSE IF outcome = "cooldown" THEN ErrorResp(429, "cooldown")
  ELSE NoResp

\* What the db.run callback of POST /api/place answers.
RestCallbackReply(st) == IF st = "err" THEN ErrorResp(500, "db") ELSE OkResp

\* (variant: the callback without its err test)
CallbackEmitsAlways(st) == TRUE

\* Whether the db.run callback gets past `if (err) return`.
CallbackEmits(st) == st = "ok"

\* A place request past db.run: what the callback's closure holds (x, y,
\* color, and the socket or response it answers to), the ts bound to the
\* statement, and how far the statement is: "queued", "ok" or "err".  nth
\* orders the executed statements whose callbacks have not run yet: a
\* statement executed later has the larger nth (0 while queued or failed).
Request(via, ip, sock, d, ts) ==
  [via |-> via, ip |-> ip, sock |-> sock, x |-> d.x.v, y |-> d.y.v,
   color |-> d.color.v, ts |-> ts, st |-> "queued", nth |-> 0]

\* The place of the next executed statement among those awaiting their callback.
NextNth(rs) ==
  LET done == {q.nth : q \in {p \in rs : p.st = "ok"}}
  IN IF done = {} THEN 1 ELSE 1 + (CHOOSE n \in done : \A m \in done : m <= n)

\* The record of a step: the handler or callback that ran (op, via), for
\* which address (ip), what it decided (result), the stored value it read or
\* replaced (prev: the actor's cooldown entry for a place handler past
\* validation, the row's last_modified for an upsert; Absent when there was
\* none), the request's ts, the HTTP response sent and the socket messages
\* emitted.
Event(op, via, ip, result, prev, ts, resp, emits) ==
  [op |-> op, via |-> via, ip |-> ip, result |-> result, prev |-> prev,
   ts |-> ts, resp |-> resp, emits |-> emits]
Quiet(op) == Event(op, "", "", "", Absent, Absent, NoResp, NoEmits)

\* The last_modified stored at (x, y), Absent when there is no row.
StoredAt(rows, x, y) ==
  IF \E q \in rows : q.x = x /\ q.y = y
    THEN (CHOOSE q \in rows : q.x = x /\ q.y = y).last_modified
    ELSE Absent

\* What a place handler read from its cooldown object, if it got that far.
EntryRead(outcome, tab, ip) ==
  IF outcome \in {"cooldown", "admit"} THEN tab.entries[ip] ELSE Absent

\* ---------------------------------------------------------------- snapshots
\* SELECT x, y, color FROM pixels
SelectXYColor(rows) == {[x |-> q.x, y |-> q.y, color |-> q.color] : q \in rows}

\* (variant: a read that returns the first column of the canvas only)
SelectFirstColumn(rows) == {c \in SelectXYColor(rows) : c.x = 0}

\* The rows db.all hands to its callback.
DbAllRows(rows) == SelectXYColor(rows)

\* A snapshot read past db.all: who asked (a socket, or an address over
\* REST), how far the statement is ("queued", "ok" or "err") and the rows it
\* read; n tells the reads in flight apart.  seen and later record, for the
\* properties, the cells stored when the request was received and the cells
\* stored since.
Snapshot(via, ip, sock, rows, n) ==
  [n |-> n, via |-> via, ip |-> ip, sock |-> sock, st |-> "queued", rows |-> {},
   seen |-> SelectXYColor(rows), later |-> {}]

\* A number no snapshot read in flight has.
FreeSnap(sn) ==
  CHOOSE n \in 1 .. MaxSnaps :
    /\ \A q \in sn : q.n # n
    /\ \A m \in 1 .. n - 1 : \E q \in sn : q.n = m

PixelsMsg(rows) == [type |-> "pixels", rows |-> rows]
ErrorMsg == [type |-> "error", what |-> "db"]

\* res.json(rows): the rows as text
RowsResp(rows) == [status |-> 200, key |-> "rows", val |-> ToString(rows)]

\* ---------------------------------------------------------------- client
\* The key of script.js: `${x},${y}`
Key(x, y) == ToString(x) \o "," \o ToString(y)

\* A page just loaded: pixels = {}, getPixels not sent yet, no 'pixels' handled.
FreshClient == [asked |-> FALSE, synced |-> FALSE, map |-> {}]

\* socket.on('pixels'): the map is replaced by the rows
OnPixels(c, rows) ==
  [c EXCEPT !.synced = TRUE,
            !.map = {[key |-> Key(r.x, r.y), color |-> r.color] : r \in rows}]

\* socket.on('pixel'): one key is set
OnPixel(c, p) ==
  [c EXCEPT !.map = {e \in c.map : e.key # Key(p.x, p.y)}
                      \cup {[key |-> Key(p.x, p.y), color |-> p.color]}]

\* The client's handler for message m.
Handle(c, m) ==
  IF m.type = "pixels" THEN OnPixels(c, m.rows)
  ELSE IF m.type = "pixel" THEN OnPixel(c, m)
  ELSE c

\* ---------------------------------------------------------------- actions
Init ==
  /\ world \in Worlds
  /\ now = 0
  /\ placeCooldown = UndefinedTable
  /\ socketCooldown = UndefinedTable
  /\ pixels = {}
  /\ reqs = {}
  /\ conn = [s \in Sockets |-> NoAddr]
  /\ ev = Quiet("init")
  /\ snaps = {}
  /\ chan = [s \in Sockets |-> <<>>]
  /\ view = [s \in Sockets |-> FreshClient]

\* Time passes.
Tick ==
  /\ now < MaxTime
  /\ now' = now + 1
  /\ ev' = Quiet("tick")
  /\ UNCHANGED <<world, placeCooldown, socketCooldown, pixels, reqs, conn>>

\* io.on('connection')
Connect(s, ip) ==
  /\ conn[s] = NoAddr
  /\ conn' = [conn EXCEPT ![s] = ip]
  /\ ev' = Event("connect", "socket", ip, "", Absent, Absent, NoResp, Emit({s}, ConfigMsg))
  /\ UNCHANGED <<world, now, placeCooldown, socketCooldown, pixels, reqs>>

\* The client goes away.
Disconnect(s) ==
  /\ conn[s] # NoAddr
  /\ conn' = [conn EXCEPT ![s] = NoAddr]
  /\ ev' = Event("disconnect", "socket", conn[s], "", Absent, Absent, NoResp, NoEmits)
  /\ UNCHANGED <<world, now, placeCooldown, socketCooldown, pixels, reqs>>

\* app.post('/api/place')
RestPlace(ip, d) ==
  LET ts == now
      outcome == Outcome(Validate(d), placeCooldown, ip, ts)
      req == Request("rest", ip, NoAddr, d, ts)
  IN /\ Proceeds(outcome) => Cardinality(reqs) < InFlight(world)
     /\ placeCooldown' = NextTable(placeCooldown, ip, ts, outcome)
     /\ reqs' = IF Proceeds(outcome) THEN reqs \cup {req} ELSE reqs
     /\ ev' = Event("place", "rest", ip, outcome, EntryRead(outcome, placeCooldown, ip),
                    ts, RestReply(outcome), NoEmits)
     /\ UNCHANGED <<world, now, socketCooldown, pixels, conn>>

\* socket.on('place')
SocketPlace(s, d) ==
  /\ conn[s] # NoAddr
  /\ LET ip == conn[s]
         ts == now
         outcome == IF ~d.obj THEN "throw"
                    ELSE Outcome(Validate(d), socketCooldown, ip, ts)
         req == Request("socket", ip, s, d, ts)
         denied == IF outcome = "cooldown" THEN DeniedTargets(conn, s) ELSE {}
     IN /\ Proceeds(outcome) => Cardinality(reqs) < InFlight(world)
        /\ socketCooldown' = NextTable(socketCooldown, ip, ts, outcome)
        /\ reqs' = IF Proceeds(outcome) THEN reqs \cup {req} ELSE reqs
        /\ ev' = Event("place", "socket", ip, outcome,
                       EntryRead(outcome, socketCooldown, ip), ts, NoResp,
                       Emit(denied, DeniedMsg))
        /\ UNCHANGED <<world, now, placeCooldown, pixels, conn>>

\* sqlite executes a queued upsert.
DbRunOk(r) ==
  /\ r.st = "queued"
  /\ pixels' = Upsert(pixels, r.x, r.y, r.color, r.ts)
  /\ reqs' = (reqs \ {r}) \cup {[r EXCEPT !.st = "ok", !.nth = NextNth(reqs)]}
  /\ ev' = Event("dbrun", r.via, r.ip, "ok", StoredAt(pixels, r.x, r.y), r.ts, NoResp,
              NoEmits)
  /\ UNCHANGED <<world, now, placeCooldown, socketCooldown, conn>>

\* sqlite fails a queued upsert: the statement changes nothing.
DbRunErr(r) ==
  /\ r.st = "queued"
  /\ reqs' = (reqs \ {r}) \cup {[r EXCEPT !.st = "err"]}
  /\ ev' = Event("dbrun", r.via, r.ip, "err", StoredAt(pixels, r.x, r.y), r.ts, NoResp,
              NoEmits)
  /\ UNCHANGED <<world, now, placeCooldown, socketCooldown, pixels, conn>>

\* (variant: a failed upsert gives the actor its cooldown slot back)
RunCallbackRollback(r) ==
  /\ r.st \in {"ok", "err"}
  /\ LET targets == IF CallbackEmits(r.st) THEN PixelTargets(conn, r) ELSE {}
     IN ev' = Event("callback", r.via, r.ip, r.st, Absent, r.ts,
                    IF r.via = "rest" THEN RestCallbackReply(r.st) ELSE NoResp,
                    Emit(targets, PixelMsg(r)))
  /\ reqs' = reqs \ {r}
  /\ placeCooldown' =
       IF r.st = "err" /\ r.via = "rest"
         THEN [placeCooldown EXCEPT !.entries[r.ip] = Absent] ELSE placeCooldown
  /\ socketCooldown' =
       IF r.st = "err" /\ r.via = "socket"
         THEN [socketCooldown EXCEPT !.entries[r.ip] = Absent] ELSE socketCooldown
  /\ UNCHANGED <<world, now, pixels, conn>>

\* The callback given to db.run, for either handler.
RunCallback(r) ==
  /\ r.st \in {"ok", "err"}
  /\ LET targets == IF CallbackEmits(r.st) THEN PixelTargets(conn, r) ELSE {}
     IN ev' = Event("callback", r.via, r.ip, r.st, Absent, r.ts,
                    IF r.via = "rest" THEN RestCallbackReply(r.st) ELSE NoResp,
                    Emit(targets, PixelMsg(r)))
  /\ reqs' = reqs \ {r}
  /\ UNCHANGED <<world, now, placeCooldown, socketCooldown, pixels, conn>>

\* The server's place handlers alone: what a step emits is recorded in ev.
Next ==
  \/ Tick /\ UNCHANGED ClientVars
  \/ \E s \in SocketsOf(world), ip \in HandshakeIPs(world) :
       Connect(s, ip) /\ UNCHANGED ClientVars
  \/ \E s \in Sockets : Disconnect(s) /\ UNCHANGED ClientVars
  \/ \E ip \in RestIPs(world), d \in Bodies(world) :
       RestPlace(ip, d) /\ UNCHANGED ClientVars
  \/ \E s \in Sockets, d \in Payloads(world) :
       SocketPlace(s, d) /\ UNCHANGED ClientVars
  \/ \E r \in reqs : DbRunOk(r) /\ UNCHANGED ClientVars
  \/ \E r \in reqs : DbRunErr(r) /\ UNCHANGED ClientVars
  \/ \E r \in reqs : RunCallback(r) /\ UNCHANGED ClientVars

Spec == Init /\ [][Next]_vars

\* ---------------------------------------------------------------- ViewSpec
\* The server together with its snapshot handlers, the sockets' channels and
\* the clients of script.js, for clients that stay connected.

\* What a step emits is appended to the channel of each socket it emits to;
\* a socket delivers its messages in the order in which they were emitted.
Push ==
  /\ chan' = [s \in Sockets |-> chan[s] \o ev'.emits[s]]
  /\ \A s \in Sockets : Len(chan'[s]) <= MaxChan

\* The cell request r stores, noted on the snapshot reads still queued.
Noted(sn, r) ==
  {IF q.st = "queued"
     THEN [q EXCEPT !.later = @ \cup {[x |-> r.x, y |-> r.y, color |-> r.color]}]
     ELSE q : q \in sn}

\* socket.on('getPixels'); script.js sends it once, when the page loads.
GetPixels(s) ==
  /\ conn[s] # NoAddr
  /\ ~view[s].asked
  /\ Cardinality(snaps) < MaxSnaps
  /\ view' = [view EXCEPT ![s].asked = TRUE]
  /\ snaps' = snaps \cup {Snapshot("socket", conn[s], s, pixels, FreeSnap(snaps))}
  /\ ev' = Event("getPixels", "socket", conn[s], "", Absent, Absent, NoResp, NoEmits)
  /\ UNCHANGED <<world, now, placeCooldown, socketCooldown, pixels, reqs, conn, chan>>

\* app.get('/api/pixels')
GetApiPixels(ip) ==
  /\ Cardinality(snaps) < MaxSnaps
  /\ snaps' = snaps \cup {Snapshot("rest", ip, NoAddr, pixels, FreeSnap(snaps))}
  /\ ev' = Event("getPixels", "rest", ip, "", Absent, Absent, NoResp, NoEmits)
  /\ UNCHANGED <<world, now, placeCooldown, socketCooldown, pixels, reqs, conn, chan, view>>

\* sqlite executes a queued SELECT.
DbAllOk(q) ==
  /\ q.st = "queued"
  /\ snaps' = (snaps \ {q}) \cup {[q EXCEPT !.st = "ok", !.rows = DbAllRows(pixels)]}
  /\ ev' = Event("dball", q.via, q.ip, "ok", Absent, Absent, NoResp, NoEmits)
  /\ UNCHANGED <<world, now, placeCooldown, socketCooldown, pixels, reqs, conn, chan, view>>

\* sqlite fails a queued SELECT.
DbAllErr(q) ==
  /\ q.st = "queued"
  /\ snaps' = (snaps \ {q}) \cup {[q EXCEPT !.st = "err"]}
  /\ ev' = Event("dball", q.via, q.ip, "err", Absent, Absent, NoResp, NoEmits)
  /\ UNCHANGED <<world, now, placeCooldown, socketCooldown, pixels, reqs, conn, chan, view>>

\* The callback given to db.all, for either handler.
AllCallback(q) ==
  /\ q.st \in {"ok", "err"}
  /\ ev' = IF q.via = "rest"
             THEN Event("snapshot", "rest", q.ip, q.st, Absent, Absent,
                        IF q.st = "err" THEN ErrorResp(500, "db") ELSE RowsResp(q.rows),
                        NoEmits)
             ELSE Event("snapshot", "socket", q.ip, q.st, Absent, Absent, NoResp,
                        Emit({q.sock}, IF q.st = "err" THEN ErrorMsg ELSE PixelsMsg(q.rows)))
  /\ snaps' = snaps \ {q}
  /\ Push
  /\ UNCHANGED <<world, now, placeCooldown, socketCooldown, pixels, reqs, conn, view>>

\* The client of socket s handles the next message sent to it.
Receive(s) ==
  /\ chan[s] # <<>>
  /\ view' = [view EXCEPT ![s] = Handle(view[s], Head(chan[s]))]
  /\ chan' = [chan EXCEPT ![s] = Tail(chan[s])]
  /\ ev' = Event("receive", "socket", conn[s], Head(chan[s]).type, Absent, Absent,
                 NoResp, NoEmits)
  /\ UNCHANGED <<world, now, placeCooldown, socketCooldown, pixels, reqs, conn, snaps>>

\* The process starts at a time past the first cooldown window.
ViewInit ==
  /\ world = "replica"
  /\ now = PLACE_COOLDOWN_MS
  /\ placeCooldown = UndefinedTable
  /\ socketCooldown = UndefinedTable
  /\ pixels = {}
  /\ reqs = {}
  /\ conn = [s \in Sockets |-> NoAddr]
  /\ ev = Quiet("init")
  /\ snaps = {}
  /\ chan = [s \in Sockets |-> <<>>]
  /\ view = [s \in Sockets |-> FreshClient]

ViewNext ==
  \/ Tick /\ now < PLACE_COOLDOWN_MS + MaxViewTicks /\ UNCHANGED ClientVars
  \/ \E s \in SocketsOf(world), ip \in HandshakeIPs(world) :
       Connect(s, ip) /\ Push /\ UNCHANGED <<snaps, view>>
  \/ \E ip \in RestIPs(world), d \in Bodies(world) :
       RestPlace(ip, d) /\ UNCHANGED ClientVars
  \/ \E s \in Sockets, d \in Payloads(world) :
       SocketPlace(s, d) /\ Push /\ UNCHANGED <<snaps, view>>
  \/ \E r \in reqs : DbRunOk(r) /\ snaps' = Noted(snaps, r) /\ UNCHANGED <<chan, view>>
  \/ \E r \in reqs : DbRunErr(r) /\ UNCHANGED ClientVars
  \/ \E r \in reqs : RunCallback(r) /\ Push /\ UNCHANGED <<snaps, view>>
  \/ \E s \in SocketsOf(world) : GetPixels(s)
  \/ \E ip \in RestIPs(world) : GetApiPixels(ip)
  \/ \E q \in snaps : DbAllOk(q)
  \/ \E q \in snaps : DbAllErr(q)
  \/ \E q \in snaps : AllCallback(q)
  \/ \E s \in Sockets : Receive(s)

ViewSpec == ViewInit /\ [][ViewNext]_vars

\* ---------------------------------------------------------------- properties
InvalidInput == {"invalid coords", "out of bounds", "invalid color", "throw"}
Rejections == InvalidInput \cup {"cooldown"}

\* The cooldown object a handler of the given interface consults.
TableOf(via) == IF via = "rest" THEN placeCooldown ELSE socketCooldown

\* The sockets a step emitted a 'pixel' event to.
PixelsSent(e) ==
  {s \in Sockets : \E i \in 1 .. Len(e.emits[s]) : e.emits[s][i].type = "pixel"}

AllEntriesKept ==
  /\ placeCooldown'.entries = placeCooldown.entries
  /\ socketCooldown'.entries = socketCooldown.entries

\* C1: a place request that passes validation, from an actor that was admitted
\* on either interface less than PLACE_COOLDOWN_MS ago, is denied with Cooldown.
C1_SecondWithinCooldownDenied ==
  [][ ( /\ ev'.op = "place"
        /\ ev'.result \in {"admit", "cooldown"}
        /\ \E via \in {"rest", "socket"} :
             /\ TableOf(via).entries[ev'.ip] # Absent
             /\ now - TableOf(via).entries[ev'.ip] < PLACE_COOLDOWN_MS )
      => ev'.result = "cooldown" ]_vars

\* C2: a place request rejected for invalid input or for cooldown, on either
\* interface, changes no row, issues no upsert and emits no 'pixel' event.
C2_RejectedChangesNothing ==
  [][ (ev'.op = "place" /\ ev'.result \in Rejections)
      => (pixels' = pixels /\ reqs' = reqs /\ PixelsSent(ev') = {}) ]_vars

C2_Witness ==
  /\ ev.op = "place"
  /\ ev.result = "cooldown"
  /\ pixels # {}
  /\ Connected(conn) # {}

\* C3: the entries of both cooldown objects change only in a step that admits
\* a place request; a request with invalid input reads no entry and leaves
\* both objects as they were; a request denied for cooldown leaves every entry,
\* the denied actor's included, as it was.
C3_EntriesChangeOnlyOnAdmission ==
  [][ /\ (ev'.op = "place" /\ ev'.result \in InvalidInput)
           => ( /\ ev'.prev = Absent
                /\ placeCooldown' = placeCooldown
                /\ socketCooldown' = socketCooldown )
      /\ (ev'.op = "place" /\ ev'.result = "cooldown") => AllEntriesKept
      /\ ~AllEntriesKept => (ev'.op = "place" /\ ev'.result = "admit") ]_vars

C3_Witness ==
  /\ ev.op = "place"
  /\ ev.result = "cooldown"
  /\ ev.prev # Absent
  /\ ev.prev < ev.ts
  /\ TableOf(ev.via).entries[ev.ip] = ev.prev

\* C4: when the upsert of an admitted request fails, neither the failing
\* statement nor its callback changes a row or emits anything, the REST
\* callback answers 500 {error: "db"}, and nothing answers 200 {ok: true}.
C4_FailedUpsertNotAccepted ==
  [][ (ev'.op \in {"dbrun", "callback"} /\ ev'.result = "err")
      => ( /\ pixels' = pixels
           /\ ev'.emits = NoEmits
           /\ ev'.resp # OkResp
           /\ (ev'.op = "callback" /\ ev'.via = "rest")
                => ev'.resp = [status |-> 500, key |-> "error", val |-> "db"] ) ]_vars

C4_Witness ==
  /\ ev.op = "callback"
  /\ ev.result = "err"
  /\ ev.via = "rest"
  /\ ev.resp.status = 500
  /\ Connected(conn) # {}

C6_FreshActorAdmitted ==
  [][ /\ ( /\ ev'.op = "place"
           /\ ev'.result \in {"admit", "cooldown"}
           /\ placeCooldown.entries[ev'.ip] = Absent
           /\ socketCooldown.entries[ev'.ip] = Absent )
         => ev'.result = "admit"
      /\ \A r \in reqs :
           (pixels = {} /\ r.st = "queued" /\ DbRunOk(r))
           => pixels' = {[x |-> r.x, y |-> r.y, color |-> r.color,
                          last_modified |-> r.ts]} ]_vars

C8_LastWriteWinsWhole ==
  [][ /\ pixels' # pixels => (ev'.op = "dbrun" /\ ev'.result = "ok")
      /\ \A r \in reqs :
           (r.st = "queued" /\ DbRunOk(r))
           => ( /\ {q \in pixels' : q.x = r.x /\ q.y = r.y}
                     = {[x |-> r.x, y |-> r.y, color |-> r.color,
                         last_modified |-> r.ts]}
                /\ {q \in pixels' : ~(q.x = r.x /\ q.y = r.y)}
                     = {q \in pixels : ~(q.x = r.x /\ q.y = r.y)} ) ]_vars

C8_Witness ==
  /\ ev.op = "dbrun"
  /\ ev.result = "ok"
  /\ ev.prev # Absent
  /\ ev.prev < ev.ts
  /\ \E q \in pixels : q.last_modified = ev.ts /\ q.color = Green

\* C9: the callback of a successful upsert, of either interface, emits to each
\* socket connected at that moment exactly one 'pixel' event with the
\* request's x, y and color, and nothing to the others; it runs once per
\* request, and no other step emits a 'pixel' event.
C9_AcceptedBroadcastOnce ==
  [][ /\ \A r \in reqs :
           (r.st = "ok" /\ RunCallback(r))
           => ( /\ r \notin reqs'
                /\ \A s \in Sockets :
                     ev'.emits[s] =
                       IF conn[s] # NoAddr
                         THEN <<[type |-> "pixel", x |-> r.x, y |-> r.y,
                                 color |-> r.color]>>
                         ELSE <<>> )
      /\ PixelsSent(ev') # {} => (ev'.op = "callback" /\ ev'.result = "ok") ]_vars

C9_Witness ==
  /\ ev.op = "callback"
  /\ ev.result = "ok"
  /\ ev.via = "socket"
  /\ Connected(conn) = Sockets
  /\ PixelsSent(ev) = Sockets

\* C10: a socket place request denied for cooldown emits exactly one
\* 'placeDenied' {reason: "cooldown"} to the sending socket and nothing to any
\* other; one with invalid input emits nothing to anyone.
C10_DeniedToSenderOnly ==
  [][ (ev'.op = "place" /\ ev'.via = "socket")
      => \A s \in Sockets, d \in Payloads(world) :
           SocketPlace(s, d)
           => ( /\ ev'.result = "cooldown"
                     => ev'.emits =
                          [t \in Sockets |->
                             IF t = s
                               THEN <<[type |-> "placeDenied", reason |-> "cooldown"]>>
                               ELSE <<>>]
                /\ (~d.obj \/ Validate(d) # "valid")
                     => (ev'.result \in InvalidInput /\ ev'.emits = NoEmits) ) ]_vars

C10_Witness ==
  /\ ev.op = "place"
  /\ ev.via = "socket"
  /\ ev.result = "cooldown"
  /\ Connected(conn) = Sockets
  /\ \E s \in Sockets : ev.emits[s] # <<>>
  /\ \E s \in Sockets : ev.emits[s] = <<>>

\* C11: 'pixel' events for one coordinate are emitted in the order in which
\* their writes were persisted: when a callback emits the event of request r
\* to some observer, no write to the same coordinate that was persisted
\* before r's, with another color, is still awaiting its own callback (its
\* event would reach that observer after r's, showing the older color last).
C11_PixelEventsInPersistOrder ==
  [][ \A r \in reqs :
        (r.st = "ok" /\ RunCallback(r) /\ PixelsSent(ev') # {})
        => ~\E q \in reqs :
              /\ q.st = "ok"
              /\ q.x = r.x /\ q.y = r.y
              /\ q.nth < r.nth
              /\ q.color # r.color ]_vars

\* The answer of POST /api/place for body d from address ip, with oob the
\* error named for coordinates outside the canvas: the handler's own answer,
\* or none when the answer is left to the callback of db.run.
RestAnswer(ip, d, oob) ==
  IF d.x.t # "int" \/ d.y.t # "int"
    THEN [status |-> 400, key |-> "error", val |-> "invalid coords"]
  ELSE IF ~(0 <= d.x.v /\ d.x.v < CANVAS_W /\ 0 <= d.y.v /\ d.y.v < CANVAS_H)
    THEN [status |-> 400, key |-> "error", val |-> oob]
  ELSE IF ~validColor(d.color)
    THEN [status |-> 400, key |-> "error", val |-> "invalid color"]
  ELSE IF now - (IF placeCooldown.entries[ip] = Absent THEN 0
                 ELSE placeCooldown.entries[ip]) < PLACE_COOLDOWN_MS
    THEN [status |-> 429, key |-> "error", val |-> "cooldown"]
  ELSE NoResp

RestAnswers(oob) ==
  /\ (ev'.op = "place" /\ ev'.via = "rest")
       => \A ip \in RestIPs(world), d \in Bodies(world) :
            RestPlace(ip, d) => ev'.resp = RestAnswer(ip, d, oob)
  /\ (ev'.op = "callback" /\ ev'.via = "rest")
       => \A r \in reqs :
            RunCallback(r)
            => ev'.resp = IF r.st = "err"
                            THEN [status |-> 500, key |-> "error", val |-> "db"]
                            ELSE [status |-> 200, key |-> "ok", val |-> "true"]
  /\ ev'.resp # NoResp => ev'.via = "rest" /\ ev'.op \in {"place", "callback"}

C15_DisconnectDoesNotCancel ==
  [][ /\ ev'.op = "disconnect"
           => ( /\ reqs' = reqs /\ pixels' = pixels
                /\ placeCooldown' = placeCooldown
                /\ socketCooldown' = socketCooldown )
      /\ \A r \in reqs :
           (r.via = "socket" /\ conn[r.sock] = NoAddr)
           => ( /\ r.st = "queued" => ENABLED DbRunOk(r)
                /\ r.st \in {"ok", "err"} => ENABLED RunCallback(r)
                /\ (r.st = "queued" /\ DbRunOk(r))
                     => [x |-> r.x, y |-> r.y, color |-> r.color,
                         last_modified |-> r.ts] \in pixels'
                /\ (r.st = "ok" /\ RunCallback(r))
                     => \A s \in Sockets :
                          ev'.emits[s] =
                            IF conn[s] # NoAddr
                              THEN <<[type |-> "pixel", x |-> r.x, y |-> r.y,
                                      color |-> r.color]>>
                              ELSE <<>> ) ]_vars

C15_Witness ==
  /\ ev.op = "dbrun"
  /\ ev.result = "ok"
  /\ Connected(conn) # {}
  /\ \E r \in reqs :
       /\ r.via = "socket" /\ r.st = "ok" /\ r.ts = ev.ts
       /\ conn[r.sock] = NoAddr

\* The cells of the table without their timestamps.
Colors(rows) == {[x |-> q.x, y |-> q.y, color |-> q.color] : q \in rows}

\* C16: a valid request of an actor whose entry is at least PLACE_COOLDOWN_MS
\* old is admitted; when its upsert finds at its coordinate a row of the same
\* color written at least PLACE_COOLDOWN_MS before the request, the table
\* afterwards is the table before with that row's last_modified advanced to
\* the request's ts: same cells, same colors, every other row untouched.  And
\* executing an upsert twice with the same x, y, color and ts leaves the table
\* that executing it once leaves.
C16_ResubmitAdvancesTimestampOnly ==
  [][ /\ ( /\ ev'.op = "place"
           /\ ev'.result \in {"admit", "cooldown"}
           /\ TableOf(ev'.via).entries[ev'.ip] # Absent
           /\ TableOf(ev'.via).entries[ev'.ip] + PLACE_COOLDOWN_MS <= now )
         => ev'.result = "admit"
      /\ \A r \in reqs :
           /\ (r.st = "queued" /\ DbRunOk(r))
                => \A q \in pixels :
                     ( /\ q.x = r.x /\ q.y = r.y /\ q.color = r.color
                       /\ q.last_modified + PLACE_COOLDOWN_MS <= r.ts )
                     => ( /\ pixels' = (pixels \ {q})
                                         \cup {[q EXCEPT !.last_modified = r.ts]}
                          /\ Colors(pixels') = Colors(pixels)
                          /\ Cardinality(pixels') = Cardinality(pixels)
                          /\ StoredAt(pixels', r.x, r.y) > StoredAt(pixels, r.x, r.y) )
           /\ Upsert(Upsert(pixels, r.x, r.y, r.color, r.ts), r.x, r.y, r.color, r.ts)
                = Upsert(pixels, r.x, r.y, r.color, r.ts) ]_vars

\* The second upsert of the only actor ever admitted, one cooldown after its first.
C16_Witness ==
  /\ world = "actors"
  /\ ev.op = "dbrun" /\ ev.result = "ok"
  /\ ev.via = "rest" /\ ev.ip = "ip1"
  /\ placeCooldown.entries["ip2"] = Absent
  /\ socketCooldown.entries["ip1"] = Absent
  /\ ev.prev # Absent
  /\ ev.prev + PLACE_COOLDOWN_MS <= ev.ts
  /\ pixels = {[x |-> 0, y |-> 0, color |-> Red, last_modified |-> ev.ts]}

C18_LastModifiedNeverDecreases ==
  [][ /\ \A q \in pixels :
           \E p \in pixels' :
             p.x = q.x /\ p.y = q.y /\ p.last_modified >= q.last_modified
      /\ \A p \in pixels', q \in pixels' :
           (p.x = q.x /\ p.y = q.y) => p = q ]_vars

\* An x, y, color that lies on the canvas and is a #RRGGBB color.
WellFormed(c) ==
  /\ c.x \in Int /\ c.y \in Int
  /\ 0 <= c.x /\ c.x < CANVAS_W
  /\ 0 <= c.y /\ c.y < CANVAS_H
  /\ Len(c.color) = 7
  /\ c.color[1] = "#"
  /\ \A i \in 2 .. 7 : c.color[i] \in HexDigits

\* C19: every row of the table, and every 'pixel' event emitted, has integer
\* coordinates on the canvas and a #RRGGBB color; and every 'pixel' event
\* emitted carries the x, y and color of a request whose upsert had succeeded
\* before the step that emits it.
C19_StoredAndSentWellFormed ==
  [][ /\ \A q \in pixels \cup pixels' : WellFormed(q)
      /\ \A s \in Sockets :
           \A i \in 1 .. Len(ev'.emits[s]) :
             ev'.emits[s][i].type = "pixel"
             => ( /\ WellFormed(ev'.emits[s][i])
                  /\ \E r \in reqs :
                       /\ r.st = "ok"
                       /\ r.x = ev'.emits[s][i].x
                       /\ r.y = ev'.emits[s][i].y
                       /\ r.color = ev'.emits[s][i].color ) ]_vars

\* The cell at the far edge of the canvas stored and sent.
C19_Witness ==
  /\ ev.op = "callback"
  /\ ev.result = "ok"
  /\ \E s \in Sockets :
       /\ Len(ev.emits[s]) = 1
       /\ ev.emits[s][1].x = CANVAS_W - 1
  /\ \E q \in pixels : q.x = CANVAS_W - 1

\* C20: the step that admits a request sets the requesting address's entry in
\* the cooldown object of the interface it came by, and changes no other
\* entry of that object, nothing of the other interface's object and no row;
\* a successful upsert changes the row at its coordinate and nothing else;
\* and a request is denied for cooldown only on account of its own address's
\* entry in its own interface's object.
C20_AdmissionTouchesOwnEntryOnly ==
  [][ /\ (ev'.op = "place" /\ ev'.result = "admit" /\ ev'.via = "rest")
           => ( /\ placeCooldown'.entries =
                     [placeCooldown.entries EXCEPT ![ev'.ip] = ev'.ts]
                /\ socketCooldown' = socketCooldown
                /\ pixels' = pixels )
      /\ (ev'.op = "place" /\ ev'.result = "admit" /\ ev'.via = "socket")
           => ( /\ socketCooldown'.entries =
                     [socketCooldown.entries EXCEPT ![ev'.ip] = ev'.ts]
                /\ placeCooldown' = placeCooldown
                /\ pixels' = pixels )
      /\ (ev'.op = "dbrun" /\ ev'.result = "ok")
           => ( /\ placeCooldown' = placeCooldown
                /\ socketCooldown' = socketCooldown
                /\ \A r \in reqs :
                     DbRunOk(r)
                     => {q \in pixels' : ~(q.x = r.x /\ q.y = r.y)}
                          = {q \in pixels : ~(q.x = r.x /\ q.y = r.y)} )
      /\ (ev'.op = "place" /\ ev'.result = "cooldown")
           => now - (IF TableOf(ev'.via).entries[ev'.ip] = Absent THEN 0
                     ELSE TableOf(ev'.via).entries[ev'.ip]) < PLACE_COOLDOWN_MS ]_vars

\* One address admitted while the other address is inside its cooldown.
C20_Witness ==
  /\ ev.op = "place"
  /\ ev.result = "admit"
  /\ ev.via = "rest"
  /\ ev.ip = "ip2"
  /\ placeCooldown.entries["ip1"] # Absent
  /\ ev.ts - placeCooldown.entries["ip1"] < PLACE_COOLDOWN_MS
  /\ placeCooldown.entries["ip1"] # ev.ts

\* C12: for a client that is connected and has handled a 'pixels' snapshot,
\* once no place request and no snapshot read is in flight and every message
\* sent to it has been handled, its pixels map holds exactly the cells of the
\* table, each with the stored color.
C12_ReplicaConverges ==
  \A s \in Sockets :
    ( /\ conn[s] # NoAddr
      /\ view[s].synced
      /\ reqs = {} /\ snaps = {}
      /\ chan[s] = <<>> )
    => view[s].map = {[key |-> Key(q.x, q.y), color |-> q.color] : q \in pixels}

\* C13: the rows a snapshot read returns are the cells of the table at the
\* moment the read executes, which is not before the request was received:
\* every cell stored when the request was received is among them, with the
\* color it had then or one stored since, and every row among them was stored
\* by a successful upsert, before the request or since; the callback sends
\* exactly the rows read, as 'pixels' to the asking socket or as the body of
\* the REST answer; and a place request that is denied or rejected adds
\* nothing to the table or to what a queued read will return.
C13_SnapshotAtOrAfterRequest ==
  [][ /\ \A q \in snaps :
           (q.st = "queued" /\ DbAllOk(q))
           => \E p \in snaps' \ snaps :
                /\ p.st = "ok"
                /\ p.rows = {[x |-> c.x, y |-> c.y, color |-> c.color] : c \in pixels}
                /\ \A c \in q.seen :
                     \E r \in p.rows :
                       r.x = c.x /\ r.y = c.y /\ (r.color = c.color \/ r \in q.later)
                /\ \A r \in p.rows : r \in q.seen \cup q.later
      /\ \A q \in snaps :
           (q.st = "ok" /\ AllCallback(q))
           => IF q.via = "socket"
                THEN ev'.emits =
                       [s \in Sockets |->
                          IF s = q.sock
                            THEN <<[type |-> "pixels", rows |-> q.rows]>> ELSE <<>>]
                ELSE ev'.resp = [status |-> 200, key |-> "rows", val |-> ToString(q.rows)]
      /\ (ev'.op = "place" /\ ev'.result \in Rejections)
           => (pixels' = pixels /\ reqs' = reqs /\ snaps' = snaps) ]_vars

\* After the red cell was stored and a further request was denied for
\* cooldown, a snapshot of exactly the red cell is sent to the socket.
C13_Witness ==
  \E s \in Sockets :
    /\ chan[s] = <<[type |-> "placeDenied", reason |-> "cooldown"],
                   [type |-> "pixels",
                    rows |-> {[x |-> 0, y |-> 0, color |-> Red]}]>>
    /\ ev.op = "snapshot"
    /\ pixels = {[x |-> 0, y |-> 0, color |-> Red, last_modified |-> PLACE_COOLDOWN_MS]}

====
